---- MODULE Spec2Model ----
(***************************************************************************)
(* Blue/green deploy and rollback of x402-gateway: the deploy script and   *)
(* scripts/rollback.sh, run against the container runtime (docker), the    *)
(* reverse proxy's admin API (Caddy) and three small state files.          *)
(***************************************************************************)
EXTENDS Integers, Sequences, FiniteSets, TLC

(* ------------------------------------------------------------------ *)
(* Script constants                                                    *)
(* ------------------------------------------------------------------ *)
PORT_A == 3402
PORT_B == 3403
HEALTH_TIMEOUT == 60
ROLLBACK_HEALTH_TIMEOUT == 30
SLEEP_SECONDS == 2
CONTAINER_NAME_A == "x402-gateway-a"
CONTAINER_NAME_B == "x402-gateway-b"

Ports == {PORT_A, PORT_B}
Containers == {CONTAINER_NAME_A, CONTAINER_NAME_B}

\* The invocations that can exist side by side (shell processes).
Procs == {"p1", "p2"}

(* ------------------------------------------------------------------ *)
(* JSON documents of the proxy's admin API.                            *)
(* A node is a string, a list or a dict; the items of a list or dict   *)
(* are kept in order, a list item carrying the empty key.              *)
(* ------------------------------------------------------------------ *)
Str(s) == [tag |-> "str", val |-> s, items |-> <<>>]
Item(k, v) == [k |-> k, v |-> v]
List(xs) == [tag |-> "list", val |-> "", items |-> [i \in DOMAIN xs |-> Item("", xs[i])]]
Dict(kvs) == [tag |-> "dict", val |-> "", items |-> kvs]
Missing == [tag |-> "missing", val |-> "", items |-> <<>>]

\* dict.get(key): the value stored under key, Missing when there is none.
Get(obj, key) ==
  IF obj.tag = "dict" /\ \E i \in DOMAIN obj.items : obj.items[i].k = key
  THEN obj.items[CHOOSE i \in DOMAIN obj.items :
                   /\ obj.items[i].k = key
                   /\ \A j \in DOMAIN obj.items : obj.items[j].k = key => i <= j].v
  ELSE Missing

\* "localhost:$PORT"
Addr(port) == IF port = PORT_A THEN "localhost:3402"
              ELSE IF port = PORT_B THEN "localhost:3403"
              ELSE "localhost:"

\* the rewrite that also sends the new address back to the old one
PatchDial_swap(u, old_addr, new_addr) ==
  IF u.tag = "dict" /\ Get(u, "dial") \in {Str(old_addr), Str(new_addr)}
  THEN [u EXCEPT !.items = [i \in DOMAIN @ |->
          IF @[i].k = "dial"
          THEN Item("dial", Str(IF @[i].v = Str(old_addr) THEN new_addr ELSE old_addr))
          ELSE @[i]]]
  ELSE u

\* u["dial"] = new_addr when u.get("dial") == old_addr
PatchDial(u, old_addr, new_addr) ==
  IF u.tag = "dict" /\ Get(u, "dial") = Str(old_addr)
  THEN [u EXCEPT !.items = [i \in DOMAIN @ |->
          IF @[i].k = "dial" THEN Item("dial", Str(new_addr)) ELSE @[i]]]
  ELSE u

\* the loop run over the upstreams of a handler of any kind
PatchHandler_any(obj, old_addr, new_addr) ==
  [obj EXCEPT !.items = [i \in DOMAIN @ |->
     IF @[i].k = "upstreams" /\ @[i].v.tag = "list"
     THEN Item("upstreams",
               [@[i].v EXCEPT !.items = [j \in DOMAIN @ |->
                  Item("", IF @[j].v.tag = "dict" /\ Get(@[j].v, "dial") = Str(old_addr)
                           THEN [@[j].v EXCEPT !.items = [k \in DOMAIN @ |->
                                   IF @[k].k = "dial" THEN Item("dial", Str(new_addr)) ELSE @[k]]]
                           ELSE @[j].v)]])
     ELSE @[i]]]

\* The loop over obj.get("upstreams", []) of a reverse_proxy handler.
PatchHandler(obj, old_addr, new_addr) ==
  IF Get(obj, "handler") = Str("reverse_proxy")
  THEN [obj EXCEPT !.items = [i \in DOMAIN @ |->
          IF @[i].k = "upstreams" /\ @[i].v.tag = "list"
          THEN Item("upstreams",
                    [@[i].v EXCEPT !.items = [j \in DOMAIN @ |->
                       Item("", PatchDial(@[j].v, old_addr, new_addr))]])
          ELSE @[i]]]
  ELSE obj

RECURSIVE patch_upstreams_leaf(_, _, _)
\* the walk that takes every handler for a leaf and looks no deeper
patch_upstreams_leaf(obj, old_addr, new_addr) ==
  IF obj.tag = "dict" /\ Get(obj, "handler") # Missing
  THEN PatchHandler(obj, old_addr, new_addr)
  ELSE [obj EXCEPT !.items = [i \in DOMAIN @ |->
          Item(@[i].k, patch_upstreams_leaf(@[i].v, old_addr, new_addr))]]

RECURSIVE patch_upstreams(_, _, _)
\* Walk the config and replace all upstream dial addresses that point to the
\* old port with the new port.
patch_upstreams(obj, old_addr, new_addr) ==
  IF obj.tag = "dict"
  THEN LET o == PatchHandler(obj, old_addr, new_addr)
       IN [o EXCEPT !.items = [i \in DOMAIN @ |->
             Item(@[i].k, patch_upstreams(@[i].v, old_addr, new_addr))]]
  ELSE IF obj.tag = "list"
  THEN [obj EXCEPT !.items = [i \in DOMAIN @ |->
          Item("", patch_upstreams(@[i].v, old_addr, new_addr))]]
  ELSE obj

\* The dial addresses the proxy forwards to: those of the upstreams of its
\* reverse_proxy handlers, wherever they sit in the document.
RECURSIVE Dials(_)
Dials(obj) ==
  LET own == IF Get(obj, "handler") = Str("reverse_proxy") /\ Get(obj, "upstreams").tag = "list"
             THEN {Get(u.v, "dial").val : u \in
                     {Get(obj, "upstreams").items[i] : i \in DOMAIN Get(obj, "upstreams").items}}
             ELSE {}
  IN own \cup UNION {Dials(obj.items[i].v) : i \in DOMAIN obj.items}

\* The slot ports live traffic is routed to.
RoutedPorts(doc) == {port \in Ports : Addr(port) \in Dials(doc)}

ReverseProxy(dials) ==
  Dict(<<Item("handler", Str("reverse_proxy")),
         Item("upstreams", List([i \in DOMAIN dials |-> Dict(<<Item("dial", Str(dials[i]))>>)]))>>)

Route(handlers) == Dict(<<Item("handle", List(handlers))>>)

Server(routes) ==
  Dict(<<Item("apps", Dict(<<Item("http", Dict(<<Item("servers",
         Dict(<<Item("srv0", Dict(<<Item("listen", List(<<Str(":443")>>)),
                                   Item("routes", List(routes))>>))>>))>>))>>))>>)

\* One route block proxying to the gateway.
DocSingle == Server(<<Route(<<ReverseProxy(<<Addr(PORT_A)>>)>>)>>)

\* Paid and free sub-paths sharing the gateway upstream (one of them inside a
\* subroute), next to a route for an unrelated backend.
DocShared ==
  Server(<<Route(<<Dict(<<Item("handler", Str("subroute")),
                          Item("routes", List(<<Route(<<ReverseProxy(<<Addr(PORT_A)>>)>>)>>))>>)>>),
           Route(<<ReverseProxy(<<Addr(PORT_A)>>)>>),
           Route(<<ReverseProxy(<<"localhost:9000">>)>>)>>)

InitialDocs == {DocSingle, DocShared}

(* ------------------------------------------------------------------ *)
(* State                                                               *)
(* ------------------------------------------------------------------ *)
VARIABLES
  fs,       \* the state files: each a sequence of lines, <<>> when absent
  docker,   \* container name -> "absent" | "running" | "stopped"
  caddy,    \* the proxy's live configuration document
  sh,       \* per invocation: position, shell variables, outcome
  lastRun,  \* the invocation that ended last: [op, ok]
  lastOk,   \* the operation that succeeded last: "none" | "deploy" | "rollback"
  rw,       \* a document under patch_upstreams on its own: input and results
  api,      \* the gateway's key database, clock and the request it is serving
  svc       \* a service module's browser, launch promise, launches and callers

vars == <<fs, docker, caddy, sh, lastRun, lastOk, rw, api, svc>>

\* The deployment scripts' part of the state.
deployment == <<fs, docker, caddy, sh, lastRun, lastOk>>

\* The gateway process is not part of a deployment run.
NoGateway == [up |-> FALSE]

\* Requests that call getBrowser
Callers == {"r1", "r2", "r3"}

\* A request that is not inside getBrowser.
NoCall == [pc |-> "idle", p |-> 0, via |-> "", live |-> TRUE]

\* The service module as loaded: no browser, no launch promise.
NoBrowser ==
  [browser |-> 0, browserLaunchPromise |-> 0, launch |-> <<>>, connected |-> {},
   handlers |-> {}, callers |-> [c \in Callers |-> NoCall]]

\* No document is being patched outside an invocation.
NoRewrite == [step |-> "none", cfg |-> Missing, old_addr |-> "", new_addr |-> "",
              once |-> Missing, twice |-> Missing]

NoFiles == [STATE_FILE |-> <<>>, PREV_PORT_FILE |-> <<>>, PREV_CONTAINER_FILE |-> <<>>]

\* What an invocation sees of the world when it starts.
World == [fs |-> fs, docker |-> docker, caddy |-> caddy]

Idle == [op |-> "none", pc |-> "idle", st |-> "idle", reason |-> "",
         ACTIVE_PORT |-> 0, NEW_PORT |-> 0, PREV_PORT |-> 0,
         ACTIVE_CONTAINER |-> "", NEW_CONTAINER |-> "", PREV_CONTAINER |-> "",
         ELAPSED |-> 0, probes |-> 0, cfg |-> Missing, applied |-> FALSE, log |-> <<>>,
         pre |-> [fs |-> NoFiles,
                  docker |-> [c \in Containers |-> "absent"],
                  caddy |-> Missing],
         after |-> [op |-> "none", ok |-> FALSE], afterOk |-> "none",
         afterKilled |-> FALSE]

\* First run: slot A serves, nothing persisted, the proxy points at slot A.
Init ==
  /\ fs = NoFiles
  /\ docker = [c \in Containers |-> IF c = CONTAINER_NAME_A THEN "running" ELSE "absent"]
  /\ caddy \in InitialDocs
  /\ sh = [p \in Procs |-> Idle]
  /\ lastRun = [op |-> "none", ok |-> FALSE]
  /\ lastOk = "none"
  /\ rw = NoRewrite
  /\ api = NoGateway
  /\ svc = NoBrowser

\* load(): the persisted active port, slot A's when nothing is persisted yet.
ActivePort(files) == IF files.STATE_FILE # <<>> THEN Head(files.STATE_FILE) ELSE PORT_A

\* the next port number instead of the other slot's
Other_next(port) == port + 1

\* The other slot's port.
Other(port) == IF port = PORT_A THEN PORT_B ELSE PORT_A

\* The container the scripts bind to a slot's port.
ContainerOn(port) == IF port = PORT_A THEN CONTAINER_NAME_A ELSE CONTAINER_NAME_B

\* The invocation that ended last was killed.
LastKilled ==
  \E q \in Procs : sh[q].st = "killed" /\ lastRun = [op |-> sh[q].op, ok |-> FALSE]

\* One invocation at a time: operators run deploys and rollbacks in series.
MayStart(p) ==
  /\ p = "p1"
  /\ \A q \in Procs : sh[q].st # "run"

At(p, op, pc) == sh[p].st = "run" /\ sh[p].op = op /\ sh[p].pc = pc

\* exit 1 (explicit, or the failing command under set -e)
Fail(p, why) == [sh[p] EXCEPT !.st = "fail", !.reason = why]
Goto(p, pc) == [sh[p] EXCEPT !.pc = pc]

\* The port a container is published on (-p 127.0.0.1:$NEW_PORT:3402).
PortOf(container) == IF container = CONTAINER_NAME_A THEN PORT_A ELSE PORT_B

\* The invocation's record of what it has done so far: the command and the
\* slot port it was addressed to.
Did(rec, e, port) == [rec EXCEPT !.log = Append(@, [e |-> e, port |-> port])]

\* One more curl of the health endpoint has returned.
Probed(rec) == [rec EXCEPT !.probes = @ + 1]

Ended(p, op, ok) ==
  /\ lastRun' = [op |-> op, ok |-> ok]
  /\ lastOk' = IF ok THEN op ELSE lastOk
  /\ UNCHANGED <<rw, api, svc>>
Running == UNCHANGED <<lastRun, lastOk, rw, api, svc>>

(* Commands that can fail: git pull, docker build, docker run, the proxy's  *)
(* GET /config/ and POST /load, docker image prune, and the stop and rm of *)
(* the old unit (whose failure the scripts tolerate with || true).  A      *)
(* command addressed to a unit the invocation has just created or found    *)
(* (docker rm -f, docker logs, docker start) does what it is asked.        *)

\* curl -sf http://localhost:$port/health: only a running unit can answer, and
\* a running unit may or may not answer yet.
ProbeCanSucceed(port) == docker[ContainerOn(port)] = "running"

(* ------------------------------------------------------------------ *)
(* deploy                                                              *)
(* ------------------------------------------------------------------ *)
\* Read current state and choose the slots.
DeployBegin(p) ==
  /\ sh[p].st # "run"
  /\ LET active == ActivePort(fs)
     IN sh' = [sh EXCEPT ![p] =
          [Idle EXCEPT !.op = "deploy", !.pc = "pull", !.st = "run",
             !.ACTIVE_PORT = active,
             !.NEW_PORT = Other(active),
             !.ACTIVE_CONTAINER = IF active = PORT_A THEN CONTAINER_NAME_A ELSE CONTAINER_NAME_B,
             !.NEW_CONTAINER = IF active = PORT_A THEN CONTAINER_NAME_B ELSE CONTAINER_NAME_A,
             !.pre = World, !.after = lastRun, !.afterOk = lastOk,
             !.afterKilled = LastKilled]]
  /\ UNCHANGED <<fs, docker, caddy, lastRun, lastOk, rw, api, svc>>

\* A deploy is started while no other invocation runs.
DeployStart(p) == MayStart(p) /\ DeployBegin(p)

\* Two deploys started from the same persisted state, the second right
\* behind the first: nothing in the script keeps it from running.  Starting
\* only reads .active-port, so a later start behaves as this one does with
\* its first command delayed.
DeployStartOverlapping(p) ==
  /\ sh[p].st = "idle"
  /\ \/ p = "p1" /\ \A q \in Procs : sh[q].st = "idle"
     \/ p # "p1" /\ At("p1", "deploy", "pull")
  /\ DeployBegin(p)

\* 1. git pull
DeployPull(p) ==
  /\ At(p, "deploy", "pull")
  /\ \/ sh' = [sh EXCEPT ![p] = Goto(p, "build")] /\ Running
     \/ sh' = [sh EXCEPT ![p] = Fail(p, "PullFailed")] /\ Ended(p, "deploy", FALSE)
  /\ UNCHANGED <<fs, docker, caddy>>

\* 2. docker build
DeployBuild(p) ==
  /\ At(p, "deploy", "build")
  /\ \/ sh' = [sh EXCEPT ![p] = Goto(p, "rm_stale")] /\ Running
     \/ sh' = [sh EXCEPT ![p] = Fail(p, "BuildFailed")] /\ Ended(p, "deploy", FALSE)
  /\ UNCHANGED <<fs, docker, caddy>>

\* the cleanup aimed at the slot persisted as active
DeployRmStale_active(p) ==
  /\ At(p, "deploy", "rm_stale")
  /\ docker' = [docker EXCEPT ![sh[p].ACTIVE_CONTAINER] = "absent"]
  /\ sh' = [sh EXCEPT ![p] = Did(Goto(p, "run"), "clear", PortOf(sh[p].ACTIVE_CONTAINER))]
  /\ Running
  /\ UNCHANGED <<fs, caddy>>

\* a stale unit that is stopped and left in the slot
DeployRmStale_stop(p) ==
  /\ At(p, "deploy", "rm_stale")
  /\ docker' = [docker EXCEPT ![sh[p].NEW_CONTAINER] =
                  IF @ = "absent" THEN "absent" ELSE "stopped"]
  /\ sh' = [sh EXCEPT ![p] = Did(Goto(p, "run"), "clear", PortOf(sh[p].NEW_CONTAINER))]
  /\ Running
  /\ UNCHANGED <<fs, caddy>>

\* 3. docker rm -f "$NEW_CONTAINER" || true
DeployRmStale(p) ==
  /\ At(p, "deploy", "rm_stale")
  /\ docker' = [docker EXCEPT ![sh[p].NEW_CONTAINER] = "absent"]
  /\ sh' = [sh EXCEPT ![p] = Did(Goto(p, "run"), "clear", PortOf(sh[p].NEW_CONTAINER))]
  /\ Running
  /\ UNCHANGED <<fs, caddy>>

\* 3. docker run -d --name "$NEW_CONTAINER" -p 127.0.0.1:$NEW_PORT:3402
\* A failing run may leave the container created but not started.
DeployRun(p) ==
  /\ At(p, "deploy", "run")
  /\ \/ /\ docker[sh[p].NEW_CONTAINER] = "absent"
        /\ docker' = [docker EXCEPT ![sh[p].NEW_CONTAINER] = "running"]
        /\ sh' = [sh EXCEPT ![p] = Did([Goto(p, "health") EXCEPT !.ELAPSED = 0],
                                        "launch", PortOf(sh[p].NEW_CONTAINER))]
        /\ Running
     \/ /\ docker[sh[p].NEW_CONTAINER] = "absent"
        /\ \E left \in {"absent", "stopped"} :
             docker' = [docker EXCEPT ![sh[p].NEW_CONTAINER] = left]
        /\ sh' = [sh EXCEPT ![p] = Fail(p, "LaunchFailed")]
        /\ Ended(p, "deploy", FALSE)
     \/ /\ docker[sh[p].NEW_CONTAINER] # "absent"
        /\ sh' = [sh EXCEPT ![p] = Fail(p, "LaunchFailed")]
        /\ Ended(p, "deploy", FALSE)
        /\ UNCHANGED docker
  /\ UNCHANGED <<fs, caddy>>

\* the loop that leaves on the deadline and carries on with the cutover
DeployHealth_nogate(p) ==
  /\ At(p, "deploy", "health")
  /\ \/ /\ ProbeCanSucceed(sh[p].NEW_PORT)
        /\ sh' = [sh EXCEPT ![p] = Probed(Did(Goto(p, "caddy_get"), "probe_ok", sh[p].NEW_PORT))]
     \/ /\ sh[p].ELAPSED >= HEALTH_TIMEOUT
        /\ sh' = [sh EXCEPT ![p] = Probed(Goto(p, "caddy_get"))]
     \/ /\ sh[p].ELAPSED < HEALTH_TIMEOUT
        /\ sh' = [sh EXCEPT ![p] = Probed([Goto(p, "health") EXCEPT !.ELAPSED = @ + SLEEP_SECONDS])]
  /\ Running
  /\ UNCHANGED <<fs, docker, caddy>>

\* the loop that gives up only once the deadline has been passed
DeployHealth_late(p) ==
  /\ At(p, "deploy", "health")
  /\ \/ /\ ProbeCanSucceed(sh[p].NEW_PORT)
        /\ sh' = [sh EXCEPT ![p] = Probed(Did(Goto(p, "caddy_get"), "probe_ok", sh[p].NEW_PORT))]
     \/ /\ sh[p].ELAPSED > HEALTH_TIMEOUT
        /\ sh' = [sh EXCEPT ![p] = Probed(Goto(p, "timeout_rm"))]
     \/ /\ sh[p].ELAPSED <= HEALTH_TIMEOUT
        /\ sh' = [sh EXCEPT ![p] = Probed([Goto(p, "health") EXCEPT !.ELAPSED = @ + SLEEP_SECONDS])]
  /\ Running
  /\ UNCHANGED <<fs, docker, caddy>>

\* 4. one turn of the until-loop: probe, then either leave the loop, give up
\* (docker logs, then on to docker rm -f) or sleep.
DeployHealth(p) ==
  /\ At(p, "deploy", "health")
  /\ \/ /\ ProbeCanSucceed(sh[p].NEW_PORT)
        /\ sh' = [sh EXCEPT ![p] = Probed(Did(Goto(p, "caddy_get"), "probe_ok", sh[p].NEW_PORT))]
     \/ /\ sh[p].ELAPSED >= HEALTH_TIMEOUT
        /\ sh' = [sh EXCEPT ![p] = Probed(Goto(p, "timeout_rm"))]
     \/ /\ sh[p].ELAPSED < HEALTH_TIMEOUT
        /\ sh' = [sh EXCEPT ![p] = Probed([Goto(p, "health") EXCEPT !.ELAPSED = @ + SLEEP_SECONDS])]
  /\ Running
  /\ UNCHANGED <<fs, docker, caddy>>

\* the timeout without the removal of the unit
DeployTimeoutAbort_keep(p) ==
  /\ At(p, "deploy", "timeout_rm")
  /\ sh' = [sh EXCEPT ![p] = Fail(p, "HealthCheckTimeout")]
  /\ Ended(p, "deploy", FALSE)
  /\ UNCHANGED <<fs, docker, caddy>>

\* 4. docker rm -f "$NEW_CONTAINER"; exit 1
DeployTimeoutAbort(p) ==
  /\ At(p, "deploy", "timeout_rm")
  /\ docker' = [docker EXCEPT ![sh[p].NEW_CONTAINER] = "absent"]
  /\ sh' = [sh EXCEPT ![p] = Fail(p, "HealthCheckTimeout")]
  /\ Ended(p, "deploy", FALSE)
  /\ UNCHANGED <<fs, caddy>>

\* the read of the proxy configuration that records the new active port first
DeployCaddyGet_persist(p) ==
  /\ At(p, "deploy", "caddy_get")
  /\ fs' = [fs EXCEPT !.STATE_FILE = <<sh[p].NEW_PORT>>]
  /\ \/ /\ sh' = [sh EXCEPT ![p] = Did([Goto(p, "caddy_load") EXCEPT !.cfg = caddy],
                                        "write", sh[p].NEW_PORT)]
        /\ Running
     \/ /\ sh' = [sh EXCEPT ![p] = Did(Fail(p, "ConfigUnreachable"), "write", sh[p].NEW_PORT)]
        /\ Ended(p, "deploy", FALSE)
  /\ UNCHANGED <<docker, caddy>>

\* 5. cfg = caddy_get("/config/")
DeployCaddyGet(p) ==
  /\ At(p, "deploy", "caddy_get")
  /\ \/ sh' = [sh EXCEPT ![p] = [Goto(p, "caddy_load") EXCEPT !.cfg = caddy]] /\ Running
     \/ sh' = [sh EXCEPT ![p] = Fail(p, "ConfigUnreachable")] /\ Ended(p, "deploy", FALSE)
  /\ UNCHANGED <<fs, docker, caddy>>

\* 5. patch_upstreams(cfg); caddy_load(cfg)
DeployCaddyLoad(p) ==
  /\ At(p, "deploy", "caddy_load")
  /\ \/ /\ caddy' = patch_upstreams(sh[p].cfg, Addr(sh[p].ACTIVE_PORT), Addr(sh[p].NEW_PORT))
        /\ sh' = [sh EXCEPT ![p] = Did([Goto(p, "stop_old") EXCEPT !.cfg = caddy', !.applied = TRUE],
                                        "apply", sh[p].NEW_PORT)]
        /\ Running
     \/ /\ sh' = [sh EXCEPT ![p] = Fail(p, "ConfigApplyFailed")]
        /\ Ended(p, "deploy", FALSE)
        /\ UNCHANGED caddy
  /\ UNCHANGED <<fs, docker>>

\* the decommission that records the new active port as soon as it stops the old unit
DeployStopOld_persist(p) ==
  /\ At(p, "deploy", "stop_old")
  /\ docker' = [docker EXCEPT ![sh[p].ACTIVE_CONTAINER] = IF @ = "running" THEN "stopped" ELSE @]
  /\ fs' = [fs EXCEPT !.STATE_FILE = <<sh[p].NEW_PORT>>]
  /\ sh' = [sh EXCEPT ![p] = Goto(p, "rm_old")]
  /\ Running
  /\ UNCHANGED caddy

\* the stop of whichever unit the proxy pointed at when the run began
DeployStopOld_routed(p) ==
  /\ At(p, "deploy", "stop_old")
  /\ docker' = [c \in Containers |->
                  IF PortOf(c) \in RoutedPorts(sh[p].pre.caddy) /\ docker[c] = "running"
                  THEN "stopped" ELSE docker[c]]
  /\ sh' = [sh EXCEPT ![p] = Did(Goto(p, "rm_old"), "stop", PortOf(sh[p].ACTIVE_CONTAINER))]
  /\ Running
  /\ UNCHANGED <<fs, caddy>>

\* 6. docker stop --time 10 "$ACTIVE_CONTAINER" || true
DeployStopOld(p) ==
  /\ At(p, "deploy", "stop_old")
  /\ \/ docker' = [docker EXCEPT ![sh[p].ACTIVE_CONTAINER] =
                     IF @ = "running" THEN "stopped" ELSE @]
     \/ docker[sh[p].ACTIVE_CONTAINER] = "running" /\ UNCHANGED docker
  /\ sh' = [sh EXCEPT ![p] = Did(Goto(p, "rm_old"), "stop", PortOf(sh[p].ACTIVE_CONTAINER))]
  /\ Running
  /\ UNCHANGED <<fs, caddy>>

\* 6. docker rm "$ACTIVE_CONTAINER" || true  (no -f: a running unit stays)
DeployRmOld(p) ==
  /\ At(p, "deploy", "rm_old")
  /\ \/ docker' = [docker EXCEPT ![sh[p].ACTIVE_CONTAINER] =
                     IF @ = "stopped" THEN "absent" ELSE @]
     \/ docker[sh[p].ACTIVE_CONTAINER] = "stopped" /\ UNCHANGED docker
  /\ sh' = [sh EXCEPT ![p] = Did(Goto(p, "prune"), "rm", PortOf(sh[p].ACTIVE_CONTAINER))]
  /\ Running
  /\ UNCHANGED <<fs, caddy>>

\* 7. docker image prune -f  (under set -e)
DeployPrune(p) ==
  /\ At(p, "deploy", "prune")
  /\ \/ sh' = [sh EXCEPT ![p] = Goto(p, "save_active")] /\ Running
     \/ sh' = [sh EXCEPT ![p] = Fail(p, "PruneFailed")] /\ Ended(p, "deploy", FALSE)
  /\ UNCHANGED <<fs, docker, caddy>>

\* echo "$NEW_PORT" > "$STATE_FILE"
DeploySaveActive(p) ==
  /\ At(p, "deploy", "save_active")
  /\ fs' = [fs EXCEPT !.STATE_FILE = <<sh[p].NEW_PORT>>]
  /\ sh' = [sh EXCEPT ![p] = Did(Goto(p, "save_prev_port"), "write", sh[p].NEW_PORT)]
  /\ Running
  /\ UNCHANGED <<docker, caddy>>

\* the save that records the new port as the previous one
DeploySavePrevPort_new(p) ==
  /\ At(p, "deploy", "save_prev_port")
  /\ fs' = [fs EXCEPT !.PREV_PORT_FILE = <<sh[p].NEW_PORT>>]
  /\ sh' = [sh EXCEPT ![p] = Did(Goto(p, "save_prev_container"), "write", sh[p].NEW_PORT)]
  /\ Running
  /\ UNCHANGED <<docker, caddy>>

\* echo "$ACTIVE_PORT" > "$REPO_DIR/.previous-port"
DeploySavePrevPort(p) ==
  /\ At(p, "deploy", "save_prev_port")
  /\ fs' = [fs EXCEPT !.PREV_PORT_FILE = <<sh[p].ACTIVE_PORT>>]
  /\ sh' = [sh EXCEPT ![p] = Did(Goto(p, "save_prev_container"), "write", sh[p].ACTIVE_PORT)]
  /\ Running
  /\ UNCHANGED <<docker, caddy>>

\* echo "$ACTIVE_CONTAINER" > "$REPO_DIR/.previous-container"; the script ends
DeploySavePrevContainer(p) ==
  /\ At(p, "deploy", "save_prev_container")
  /\ fs' = [fs EXCEPT !.PREV_CONTAINER_FILE = <<sh[p].ACTIVE_CONTAINER>>]
  /\ sh' = [sh EXCEPT ![p] = Did([sh[p] EXCEPT !.st = "ok", !.pc = "end"], "write", sh[p].ACTIVE_PORT)]
  /\ Ended(p, "deploy", TRUE)
  /\ UNCHANGED <<docker, caddy>>

DeploySteps(p) ==
  \/ DeployPull(p)
  \/ DeployBuild(p)
  \/ DeployRmStale(p)
  \/ DeployRun(p)
  \/ DeployHealth(p)
  \/ DeployTimeoutAbort(p)
  \/ DeployCaddyGet(p)
  \/ DeployCaddyLoad(p)
  \/ DeployStopOld(p)
  \/ DeployRmOld(p)
  \/ DeployPrune(p)
  \/ DeploySaveActive(p)
  \/ DeploySavePrevPort(p)
  \/ DeploySavePrevContainer(p)

Deploy(p) == DeployStart(p) \/ DeploySteps(p)

(* ------------------------------------------------------------------ *)
(* rollback                                                            *)
(* ------------------------------------------------------------------ *)
\* the check that wants only one of the two files
RollbackAvailable_either ==
  fs.PREV_PORT_FILE # <<>> \/ fs.PREV_CONTAINER_FILE # <<>>

\* [[ ! -f "$PREV_PORT_FILE" ]] || [[ ! -f "$PREV_CONTAINER_FILE" ]]  =>  exit 1
RollbackAvailable ==
  fs.PREV_PORT_FILE # <<>> /\ fs.PREV_CONTAINER_FILE # <<>>

\* Check state, then read the three files.
RollbackStart(p) ==
  /\ MayStart(p)
  /\ LET begun == [Idle EXCEPT !.op = "rollback", !.pc = "ensure", !.st = "run",
                     !.pre = World, !.after = lastRun, !.afterOk = lastOk,
                     !.afterKilled = LastKilled]
         port(file) == IF file # <<>> THEN Head(file) ELSE 0
         name(file) == IF file # <<>> THEN Head(file) ELSE ""
     IN IF ~RollbackAvailable
        THEN /\ sh' = [sh EXCEPT ![p] =
                  [begun EXCEPT !.st = "fail", !.pc = "check", !.reason = "NoRollbackAvailable"]]
             /\ Ended(p, "rollback", FALSE)
        ELSE IF fs.STATE_FILE = <<>>
        THEN /\ sh' = [sh EXCEPT ![p] =
                  [begun EXCEPT !.st = "fail", !.pc = "check", !.reason = "StateUnreadable"]]
             /\ Ended(p, "rollback", FALSE)
        ELSE /\ sh' = [sh EXCEPT ![p] =
                  [begun EXCEPT
                     !.ACTIVE_PORT = port(fs.STATE_FILE),
                     !.PREV_PORT = port(fs.PREV_PORT_FILE),
                     !.PREV_CONTAINER = name(fs.PREV_CONTAINER_FILE),
                     !.ACTIVE_CONTAINER = IF port(fs.STATE_FILE) = PORT_A
                                          THEN CONTAINER_NAME_A ELSE CONTAINER_NAME_B]]
             /\ Running
  /\ UNCHANGED <<fs, docker, caddy>>

\* the revival that recreates a unit that is gone
RollbackEnsure_recreate(p) ==
  /\ At(p, "rollback", "ensure")
  /\ docker' = [docker EXCEPT ![sh[p].PREV_CONTAINER] = "running"]
  /\ sh' = [sh EXCEPT ![p] = [Goto(p, "health") EXCEPT !.ELAPSED = 0]]
  /\ Running
  /\ UNCHANGED <<fs, caddy>>

\* Restart previous container if not running: docker ps, docker ps -a,
\* docker start, or exit 1 when it is not found.
RollbackEnsure(p) ==
  /\ At(p, "rollback", "ensure")
  /\ IF docker[sh[p].PREV_CONTAINER] = "absent"
     THEN /\ sh' = [sh EXCEPT ![p] = Fail(p, "PreviousUnitGone")]
          /\ Ended(p, "rollback", FALSE)
          /\ UNCHANGED docker
     ELSE /\ docker' = [docker EXCEPT ![sh[p].PREV_CONTAINER] = "running"]
          /\ sh' = [sh EXCEPT ![p] = Did([Goto(p, "health") EXCEPT !.ELAPSED = 0],
                                          "revive", PortOf(sh[p].PREV_CONTAINER))]
          /\ Running
  /\ UNCHANGED <<fs, caddy>>

\* the wait that gives up by discarding the history it could not restore
RollbackHealth_consume(p) ==
  /\ At(p, "rollback", "health")
  /\ \/ /\ ProbeCanSucceed(sh[p].PREV_PORT)
        /\ sh' = [sh EXCEPT ![p] = Probed(Did(Goto(p, "caddy_get"), "probe_ok", sh[p].PREV_PORT))]
        /\ Running
        /\ UNCHANGED fs
     \/ /\ sh[p].ELAPSED >= ROLLBACK_HEALTH_TIMEOUT
        /\ sh' = [sh EXCEPT ![p] = Probed(Fail(p, "HealthCheckTimeout"))]
        /\ fs' = [fs EXCEPT !.PREV_PORT_FILE = <<>>, !.PREV_CONTAINER_FILE = <<>>]
        /\ Ended(p, "rollback", FALSE)
     \/ /\ sh[p].ELAPSED < ROLLBACK_HEALTH_TIMEOUT
        /\ sh' = [sh EXCEPT ![p] = Probed([Goto(p, "health") EXCEPT !.ELAPSED = @ + SLEEP_SECONDS])]
        /\ Running
        /\ UNCHANGED fs
  /\ UNCHANGED <<docker, caddy>>

\* Wait for it to be healthy: one turn of the until-loop (30s deadline).
RollbackHealth(p) ==
  /\ At(p, "rollback", "health")
  /\ \/ /\ ProbeCanSucceed(sh[p].PREV_PORT)
        /\ sh' = [sh EXCEPT ![p] = Probed(Did(Goto(p, "caddy_get"), "probe_ok", sh[p].PREV_PORT))]
        /\ Running
     \/ /\ sh[p].ELAPSED >= ROLLBACK_HEALTH_TIMEOUT
        /\ sh' = [sh EXCEPT ![p] = Probed(Fail(p, "HealthCheckTimeout"))]
        /\ Ended(p, "rollback", FALSE)
     \/ /\ sh[p].ELAPSED < ROLLBACK_HEALTH_TIMEOUT
        /\ sh' = [sh EXCEPT ![p] = Probed([Goto(p, "health") EXCEPT !.ELAPSED = @ + SLEEP_SECONDS])]
        /\ Running
  /\ UNCHANGED <<fs, docker, caddy>>

\* cfg = caddy_get("/config/")
RollbackCaddyGet(p) ==
  /\ At(p, "rollback", "caddy_get")
  /\ \/ sh' = [sh EXCEPT ![p] = [Goto(p, "caddy_load") EXCEPT !.cfg = caddy]] /\ Running
     \/ sh' = [sh EXCEPT ![p] = Fail(p, "ConfigUnreachable")] /\ Ended(p, "rollback", FALSE)
  /\ UNCHANGED <<fs, docker, caddy>>

\* patch_upstreams(cfg); caddy_load(cfg)
RollbackCaddyLoad(p) ==
  /\ At(p, "rollback", "caddy_load")
  /\ \/ /\ caddy' = patch_upstreams(sh[p].cfg, Addr(sh[p].ACTIVE_PORT), Addr(sh[p].PREV_PORT))
        /\ sh' = [sh EXCEPT ![p] = Did([Goto(p, "stop_current") EXCEPT !.cfg = caddy', !.applied = TRUE],
                                        "apply", sh[p].PREV_PORT)]
        /\ Running
     \/ /\ sh' = [sh EXCEPT ![p] = Fail(p, "ConfigApplyFailed")]
        /\ Ended(p, "rollback", FALSE)
        /\ UNCHANGED caddy
  /\ UNCHANGED <<fs, docker>>

\* docker stop --time 10 "$ACTIVE_CONTAINER" || true
RollbackStopCurrent(p) ==
  /\ At(p, "rollback", "stop_current")
  /\ \/ docker' = [docker EXCEPT ![sh[p].ACTIVE_CONTAINER] =
                     IF @ = "running" THEN "stopped" ELSE @]
     \/ docker[sh[p].ACTIVE_CONTAINER] = "running" /\ UNCHANGED docker
  /\ sh' = [sh EXCEPT ![p] = Did(Goto(p, "save_active"), "stop", PortOf(sh[p].ACTIVE_CONTAINER))]
  /\ Running
  /\ UNCHANGED <<fs, caddy>>

\* echo "$PREV_PORT" > "$STATE_FILE"
RollbackSaveActive(p) ==
  /\ At(p, "rollback", "save_active")
  /\ fs' = [fs EXCEPT !.STATE_FILE = <<sh[p].PREV_PORT>>]
  /\ sh' = [sh EXCEPT ![p] = Did(Goto(p, "rm_prev"), "write", sh[p].PREV_PORT)]
  /\ Running
  /\ UNCHANGED <<docker, caddy>>

\* the persist that keeps the history files
RollbackRmPrev_keep(p) ==
  /\ At(p, "rollback", "rm_prev")
  /\ sh' = [sh EXCEPT ![p] = [sh[p] EXCEPT !.st = "ok", !.pc = "end"]]
  /\ Ended(p, "rollback", TRUE)
  /\ UNCHANGED <<fs, docker, caddy>>

\* rm -f "$PREV_PORT_FILE" "$PREV_CONTAINER_FILE"; the script ends
RollbackRmPrev(p) ==
  /\ At(p, "rollback", "rm_prev")
  /\ fs' = [fs EXCEPT !.PREV_PORT_FILE = <<>>, !.PREV_CONTAINER_FILE = <<>>]
  /\ sh' = [sh EXCEPT ![p] = Did([sh[p] EXCEPT !.st = "ok", !.pc = "end"], "write", sh[p].PREV_PORT)]
  /\ Ended(p, "rollback", TRUE)
  /\ UNCHANGED <<docker, caddy>>

Rollback(p) ==
  \/ RollbackStart(p)
  \/ RollbackEnsure(p)
  \/ RollbackHealth(p)
  \/ RollbackCaddyGet(p)
  \/ RollbackCaddyLoad(p)
  \/ RollbackStopCurrent(p)
  \/ RollbackSaveActive(p)
  \/ RollbackRmPrev(p)

\* The invocation is killed between two of its commands.
Interrupt(p) ==
  /\ sh[p].st = "run"
  /\ sh' = [sh EXCEPT ![p] = [sh[p] EXCEPT !.st = "killed"]]
  /\ Ended(p, sh[p].op, FALSE)
  /\ UNCHANGED <<fs, docker, caddy>>

Next == \E p \in Procs : Deploy(p) \/ Rollback(p)

NextCrash == Next \/ \E p \in Procs : Interrupt(p)

\* Invocations run in series, each to its success or abort.
Spec == Init /\ [][Next]_vars

\* A started script runs its next command.
Step == \E p \in Procs : sh[p].st = "run" /\ (Deploy(p) \/ Rollback(p))

\* As Spec, every command of a started script returning and the script going on.
SpecLive == Init /\ [][Next]_vars /\ WF_vars(Step)

NextOverlap == \E p \in Procs : DeployStartOverlapping(p) \/ DeploySteps(p)

\* Deploys only, a second one free to start while the first runs.
SpecOverlap == Init /\ [][NextOverlap]_vars

\* As Spec, and an invocation may be killed at any point.
SpecCrash == Init /\ [][NextCrash]_vars

(* ------------------------------------------------------------------ *)
(* patch_upstreams on its own: documents of the shapes the proxy's     *)
(* configuration takes, patched once and then once more with the same  *)
(* addresses.                                                          *)
(* ------------------------------------------------------------------ *)
\* Route blocks per generated document.
MaxRoutes == 2

\* The addresses given as old_addr and new_addr: the two slots' and a third.
Addrs == {Addr(PORT_A), Addr(PORT_B), "localhost:9000"}

\* An upstream entry carrying keys besides its dial address.
UpstreamWithLimit(dial) ==
  Dict(<<Item("max_requests", Str("10")), Item("dial", Str(dial))>>)

\* Handlers of a route: reverse proxies with one upstream, with several, with
\* an entry that has other keys or no dial at all, with further settings or
\* no upstreams; and handlers of another kind that mention the address.
Handlers ==
  { ReverseProxy(<<Addr(PORT_A)>>),
    ReverseProxy(<<Addr(PORT_B), "localhost:9000", Addr(PORT_A)>>),
    Dict(<<Item("handler", Str("reverse_proxy")),
           Item("upstreams", List(<<UpstreamWithLimit(Addr(PORT_A)),
                                    Dict(<<Item("lookup_srv", Str(Addr(PORT_A)))>>)>>)),
           Item("headers", Dict(<<Item("Host", List(<<Str(Addr(PORT_A))>>))>>))>>),
    Dict(<<Item("flush_interval", Str("-1")), Item("handler", Str("reverse_proxy"))>>),
    Dict(<<Item("handler", Str("static_response")), Item("body", Str(Addr(PORT_A))),
           Item("upstreams", List(<<Dict(<<Item("dial", Str(Addr(PORT_A)))>>)>>))>>) }

\* A handler inside a subroute.
Subroute(h) ==
  Dict(<<Item("handler", Str("subroute")), Item("routes", List(<<Route(<<h>>)>>))>>)

\* A handler inside the handle_response routes of a reverse proxy.
HandleResponse(h) ==
  Dict(<<Item("handler", Str("reverse_proxy")),
         Item("handle_response", List(<<Dict(<<Item("routes", List(<<Route(<<h>>)>>))>>)>>)),
         Item("upstreams", List(<<Dict(<<Item("dial", Str(Addr(PORT_B)))>>)>>))>>)

\* Route blocks: a handler at the top of a route, one level down, two down.
Blocks ==
  {Route(<<h>>) : h \in Handlers}
    \cup {Route(<<Subroute(h)>>) : h \in Handlers}
    \cup {Route(<<HandleResponse(Subroute(h))>>) : h \in Handlers}

RECURSIVE RouteLists(_)
RouteLists(n) ==
  IF n = 0 THEN {<<>>}
  ELSE RouteLists(n - 1) \cup
       {Append(rs, b) : rs \in {r \in RouteLists(n - 1) : Len(r) = n - 1}, b \in Blocks}

Docs == {Server(rs) : rs \in RouteLists(MaxRoutes)}

InitRewrite ==
  /\ fs = NoFiles
  /\ docker = [c \in Containers |-> "absent"]
  /\ caddy = Missing
  /\ sh = [p \in Procs |-> Idle]
  /\ lastRun = [op |-> "none", ok |-> FALSE]
  /\ lastOk = "none"
  /\ api = NoGateway
  /\ svc = NoBrowser
  /\ \E doc \in Docs, old_addr \in Addrs, new_addr \in Addrs :
        rw = [NoRewrite EXCEPT !.step = "input", !.cfg = doc,
                               !.old_addr = old_addr, !.new_addr = new_addr]

\* patch_upstreams(cfg)
RewriteOnce ==
  /\ rw.step = "input"
  /\ rw' = [rw EXCEPT !.step = "once",
                       !.once = patch_upstreams(rw.cfg, rw.old_addr, rw.new_addr)]
  /\ UNCHANGED <<deployment, api, svc>>

\* patch_upstreams applied to its own result, the addresses unchanged
RewriteTwice ==
  /\ rw.step = "once"
  /\ rw' = [rw EXCEPT !.step = "twice",
                       !.twice = patch_upstreams(rw.once, rw.old_addr, rw.new_addr)]
  /\ UNCHANGED <<deployment, api, svc>>

NextRewrite == RewriteOnce \/ RewriteTwice

\* Any document, any pair of addresses, patched once and again.
SpecRewrite == InitRewrite /\ [][NextRewrite]_vars

(* ------------------------------------------------------------------ *)
(* The gateway's API keys: services/apikeys, middleware/auth and the   *)
(* middleware chain of index.ts, serving one request after another.    *)
(* ------------------------------------------------------------------ *)
\* Monthly request limits of the finite tiers; the unlimited tier's limit is
\* Infinity and has no number here.
TIER_LIMITS == [free |-> 50, starter |-> 5000, growth |-> 25000]
IsInfinity(tier) == tier = "unlimited"

\* Calendar months the clock passes through.
Months == {11, 12}

\* Usage rows an unlimited key collects.
MaxUnlimitedRows == 1

\* `sk_live_${randomBytes(16).toString('hex')}`: prefix and 32 lower-case hex
\* digits, which digits being told apart by id.
Key(id) == [prefix |-> "sk_live_", hexlen |-> 32, lower |-> TRUE, id |-> id]

NoRow == [id |-> 0, key |-> Key(0), tier |-> "", active |-> 0]

\* api_keys: a free key, an unlimited key and a deactivated free key.
ApiKeys ==
  { [id |-> 1, key |-> Key(1), tier |-> "free", active |-> 1],
    [id |-> 2, key |-> Key(2), tier |-> "unlimited", active |-> 1],
    [id |-> 3, key |-> Key(3), tier |-> "free", active |-> 0] }

KeyIds == {row.id : row \in ApiKeys}

\* req.headers['authorization']
NoHeader == [present |-> FALSE, scheme |-> "", key |-> Key(0)]
Header(scheme, key) == [present |-> TRUE, scheme |-> scheme, key |-> key]

\* Headers of requests: none; the three keys and one nobody was issued; and
\* the free key under another scheme, a digit short, in upper case, or with
\* another prefix.
Headers ==
  {NoHeader}
    \cup {Header("Bearer", Key(id)) : id \in KeyIds \cup {4}}
    \cup { Header("Basic", Key(1)),
           Header("Bearer", [Key(1) EXCEPT !.hexlen = 31]),
           Header("Bearer", [Key(1) EXCEPT !.lower = FALSE]),
           Header("Bearer", [Key(1) EXCEPT !.prefix = "sk_test_"]) }

\* authHeader.match(/^Bearer (sk_live_[0-9a-f]{32})$/)
Match(h) ==
  /\ h.scheme = "Bearer"
  /\ h.key.prefix = "sk_live_"
  /\ h.key.hexlen = 32
  /\ h.key.lower

\* SELECT * FROM api_keys WHERE key = ? AND active = 1
validateApiKey(rows, key) ==
  IF key.prefix # "sk_live_" THEN NoRow
  ELSE IF \E row \in rows : row.key = key /\ row.active = 1
  THEN CHOOSE row \in rows : row.key = key /\ row.active = 1
  ELSE NoRow

RECURSIVE CountFrom(_, _, _)
\* SELECT COUNT(*) FROM api_usage WHERE api_key_id = ? AND timestamp >= ?
CountFrom(usage, months, start) ==
  IF months = {} THEN 0
  ELSE LET m == CHOOSE x \in months : TRUE
       IN (IF m >= start THEN usage[m] ELSE 0) + CountFrom(usage, months \ {m}, start)

getMonthlyUsageCount(api_usage, apiKeyId, now) == CountFrom(api_usage[apiKeyId], Months, now)

Max(a, b) == IF a >= b THEN a ELSE b

NoRateLimit == [allowed |-> FALSE, limit |-> 0, used |-> 0, remaining |-> 0]

\* the check that lets a request through while none is over the limit
checkRateLimit_lax(keyRow, api_usage, now) ==
  LET used == getMonthlyUsageCount(api_usage, keyRow.id, now)
  IN IF IsInfinity(keyRow.tier)
     THEN [allowed |-> TRUE, limit |-> 0 - 1, used |-> used, remaining |-> 0 - 1]
     ELSE LET limit == TIER_LIMITS[keyRow.tier]
              remaining == Max(0, limit - used)
          IN [allowed |-> remaining >= 0, limit |-> limit, used |-> used,
              remaining |-> remaining]

\* checkRateLimit(keyRow): the tier's limit against this month's usage
checkRateLimit(keyRow, api_usage, now) ==
  LET used == getMonthlyUsageCount(api_usage, keyRow.id, now)
  IN IF IsInfinity(keyRow.tier)
     THEN [allowed |-> TRUE, limit |-> 0 - 1, used |-> used, remaining |-> 0 - 1]
     ELSE LET limit == TIER_LIMITS[keyRow.tier]
              remaining == Max(0, limit - used)
          IN [allowed |-> remaining > 0, limit |-> limit, used |-> used,
              remaining |-> remaining]

\* res.locals.apiKeyAuth before anything has set it
NoLocals == [set |-> FALSE, keyRow |-> NoRow, rateLimit |-> NoRateLimit]

\* Paths of requests: a payment-gated endpoint and a free one.
PAID_ENDPOINTS == {"/fetch"}
Endpoints == PAID_ENDPOINTS \cup {"/health"}

\* A request on its way through the middleware chain, with what has
\* happened to it: apiKeyAuth's outcome, the status sent, the usage rows
\* written for it, whether the payment middleware ran and whether its
\* handler did.
NoRequest ==
  [pc |-> "idle", header |-> NoHeader, path |-> "", pays |-> FALSE, status |-> 0,
   locals |-> NoLocals, decision |-> "", rows |-> 0, payment |-> FALSE,
   handled |-> FALSE, found |-> NoRow, rateLimit |-> NoRateLimit]

\* initApiKeyDb() done, the server listening, no usage yet.
InitGateway ==
  /\ fs = NoFiles
  /\ docker = [c \in Containers |-> "absent"]
  /\ caddy = Missing
  /\ sh = [p \in Procs |-> Idle]
  /\ lastRun = [op |-> "none", ok |-> FALSE]
  /\ lastOk = "none"
  /\ rw = NoRewrite
  /\ api = [up |-> TRUE, api_keys |-> ApiKeys,
            api_usage |-> [id \in KeyIds |-> [m \in Months |-> 0]],
            now |-> 11, req |-> NoRequest]
  /\ svc = NoBrowser

\* The rows a key has in api_usage, all months together.
RowsOf(id) == CountFrom(api.api_usage[id], Months, 0)

\* A request arrives once the one before it has been answered.
Arrive ==
  /\ api.up
  /\ api.req.pc \in {"idle", "done"}
  /\ \E h \in Headers, path \in Endpoints, pays \in BOOLEAN :
       /\ pays => path \in PAID_ENDPOINTS
       /\ \A row \in api.api_keys :
            (h.key = row.key /\ IsInfinity(row.tier)) => RowsOf(row.id) < MaxUnlimitedRows
       /\ api' = [api EXCEPT !.req = [NoRequest EXCEPT !.pc = "apiKeyAuth", !.header = h,
                                                       !.path = path, !.pays = pays]]
  /\ UNCHANGED <<deployment, rw, svc>>

\* The month turns.
Tick ==
  /\ api.up
  /\ api.now + 1 \in Months
  /\ api' = [api EXCEPT !.now = @ + 1]
  /\ UNCHANGED <<deployment, rw, svc>>

\* apiKeyAuth that turns away every header that is not a well-formed key
apiKeyAuth_strict ==
  /\ api.req.pc = "apiKeyAuth"
  /\ LET r == api.req
         keyRow == validateApiKey(api.api_keys, r.header.key)
         rateLimit == checkRateLimit(keyRow, api.api_usage, api.now)
     IN IF ~r.header.present
        THEN api' = [api EXCEPT !.req = [r EXCEPT !.pc = "payment", !.decision = "next"]]
        ELSE IF ~Match(r.header) \/ keyRow = NoRow
        THEN api' = [api EXCEPT !.req = [r EXCEPT !.pc = "done", !.decision = "401",
                                                  !.status = 401]]
        ELSE IF ~rateLimit.allowed
        THEN api' = [api EXCEPT !.req = [r EXCEPT !.pc = "done", !.decision = "429",
                                                  !.status = 429, !.found = keyRow,
                                                  !.rateLimit = rateLimit]]
        ELSE api' = [api EXCEPT !.api_usage[keyRow.id][api.now] = @ + 1,
                                !.req = [r EXCEPT !.pc = "payment", !.decision = "accept",
                                                  !.rows = @ + 1, !.found = keyRow,
                                                  !.rateLimit = rateLimit,
                                                  !.locals = [set |-> TRUE, keyRow |-> keyRow,
                                                              rateLimit |-> rateLimit]]]
  /\ UNCHANGED <<deployment, rw, svc>>

\* app.use(apiKeyAuth): runs to its return without yielding.  recordUsage
\* stamps the row with the time it runs at, which may already be in the
\* month after the one checkRateLimit counted.
apiKeyAuth ==
  /\ api.req.pc = "apiKeyAuth"
  /\ LET r == api.req
         keyRow == validateApiKey(api.api_keys, r.header.key)
         rateLimit == checkRateLimit(keyRow, api.api_usage, api.now)
     IN IF ~r.header.present \/ ~Match(r.header)
        THEN api' = [api EXCEPT !.req = [r EXCEPT !.pc = "payment", !.decision = "next"]]
        ELSE IF keyRow = NoRow
        THEN api' = [api EXCEPT !.req = [r EXCEPT !.pc = "done", !.decision = "401",
                                                  !.status = 401]]
        ELSE IF ~rateLimit.allowed
        THEN api' = [api EXCEPT !.req = [r EXCEPT !.pc = "done", !.decision = "429",
                                                  !.status = 429, !.found = keyRow,
                                                  !.rateLimit = rateLimit]]
        ELSE \E at \in {m \in Months : m = api.now \/ m = api.now + 1} :
               api' = [api EXCEPT !.api_usage[keyRow.id][at] = @ + 1,
                                  !.now = at,
                                  !.req = [r EXCEPT !.pc = "payment", !.decision = "accept",
                                                    !.rows = @ + 1, !.found = keyRow,
                                                    !.rateLimit = rateLimit,
                                                    !.locals = [set |-> TRUE, keyRow |-> keyRow,
                                                                rateLimit |-> rateLimit]]]
  /\ UNCHANGED <<deployment, rw, svc>>

\* the wrapper that steps aside for any request carrying a header
skipIfApiKey_header ==
  /\ api.req.pc = "payment"
  /\ LET r == api.req
     IN IF r.header.present
        THEN api' = [api EXCEPT !.req = [r EXCEPT !.pc = "handler"]]
        ELSE IF r.path \in PAID_ENDPOINTS /\ ~r.pays
        THEN api' = [api EXCEPT !.req = [r EXCEPT !.pc = "done", !.payment = TRUE,
                                                  !.status = 402]]
        ELSE api' = [api EXCEPT !.req = [r EXCEPT !.pc = "handler", !.payment = TRUE]]
  /\ UNCHANGED <<deployment, rw, svc>>

\* app.use(skipIfApiKey(paymentMiddleware(...))): next() when
\* res.locals.apiKeyAuth is set; otherwise the payment middleware, which
\* answers 402 to an unpaid request for a priced route and lets the rest on.
skipIfApiKey ==
  /\ api.req.pc = "payment"
  /\ LET r == api.req
     IN IF r.locals.set
        THEN api' = [api EXCEPT !.req = [r EXCEPT !.pc = "handler"]]
        ELSE IF r.path \in PAID_ENDPOINTS /\ ~r.pays
        THEN api' = [api EXCEPT !.req = [r EXCEPT !.pc = "done", !.payment = TRUE,
                                                  !.status = 402]]
        ELSE api' = [api EXCEPT !.req = [r EXCEPT !.pc = "handler", !.payment = TRUE]]
  /\ UNCHANGED <<deployment, rw, svc>>

\* app.post('/fetch', apiLimiter, handler) and the free routes: the per-IP
\* limiter may turn a request for a paid endpoint away, else the handler runs.
Handler ==
  /\ api.req.pc = "handler"
  /\ \/ /\ api.req.path \in PAID_ENDPOINTS
        /\ api' = [api EXCEPT !.req = [@ EXCEPT !.pc = "done", !.status = 429]]
     \/ api' = [api EXCEPT !.req = [@ EXCEPT !.pc = "done", !.status = 200, !.handled = TRUE]]
  /\ UNCHANGED <<deployment, rw, svc>>

NextGateway == Arrive \/ Tick \/ apiKeyAuth \/ skipIfApiKey \/ Handler

\* The gateway serving requests, the month turning at most once.
SpecGateway == InitGateway /\ [][NextGateway]_vars

(* ------------------------------------------------------------------ *)
(* The shared browser of the screenshot and fetch services              *)
(* ------------------------------------------------------------------ *)
\* puppeteer.launch calls the process makes at most
MaxLaunches == 3

\* The launch the call is tied to, how it got it, and whether that launch
\* was in flight or its browser connected when the call was made.
Handed(n, how, state) ==
  [pc |-> CASE state = "pending" -> "await"
            [] state = "rejected" -> "threw"
            [] OTHER -> "got",
   p |-> n, via |-> how, live |-> state # "rejected"]

\* A browser is n > 0, the one launch n produced; 0 is null.
HasBrowser == svc.browser # 0 /\ svc.browser \in svc.connected

\* getBrowser with no look at a launch in flight
getBrowser_nojoin(c) ==
  /\ svc.callers[c].pc = "idle"
  /\ IF HasBrowser
       THEN svc' = [svc EXCEPT !.callers[c] = Handed(svc.browser, "browser", "connected")]
       ELSE /\ Len(svc.launch) < MaxLaunches
            /\ svc' = [svc EXCEPT !.launch = Append(@, "pending"),
                                  !.browserLaunchPromise = Len(svc.launch) + 1,
                                  !.callers[c] = Handed(Len(svc.launch) + 1, "launch", "pending")]
  /\ UNCHANGED <<deployment, rw, api>>

\* getBrowser up to its first await: the connected browser, else the launch
\* promise that is set, else a new launch.
getBrowser(c) ==
  /\ svc.callers[c].pc = "idle"
  /\ IF HasBrowser
       THEN svc' = [svc EXCEPT !.callers[c] = Handed(svc.browser, "browser", "connected")]
       ELSE IF svc.browserLaunchPromise # 0
       THEN svc' = [svc EXCEPT !.callers[c] =
                      Handed(svc.browserLaunchPromise, "promise",
                             svc.launch[svc.browserLaunchPromise])]
       ELSE /\ Len(svc.launch) < MaxLaunches
            /\ svc' = [svc EXCEPT !.launch = Append(@, "pending"),
                                  !.browserLaunchPromise = Len(svc.launch) + 1,
                                  !.callers[c] = Handed(Len(svc.launch) + 1, "launch", "pending")]
  /\ UNCHANGED <<deployment, rw, api>>

\* The launch promise resolves: getBrowser resumes after its await, stores
\* the browser, clears the promise, registers the handler; the calls that
\* await the promise resume with the browser in the same turn.
LaunchResolves(n) ==
  /\ n \in DOMAIN svc.launch /\ svc.launch[n] = "pending"
  /\ svc' = [svc EXCEPT !.launch[n] = "resolved",
                        !.connected = @ \cup {n},
                        !.browser = n,
                        !.browserLaunchPromise = 0,
                        !.handlers = @ \cup {n},
                        !.callers = [c \in Callers |->
                                       IF @[c].pc = "await" /\ @[c].p = n
                                         THEN [@[c] EXCEPT !.pc = "got"] ELSE @[c]]]
  /\ UNCHANGED <<deployment, rw, api>>

\* The launch promise rejects: the await throws, nothing after it runs.
LaunchRejects(n) ==
  /\ n \in DOMAIN svc.launch /\ svc.launch[n] = "pending"
  /\ svc' = [svc EXCEPT !.launch[n] = "rejected",
                        !.callers = [c \in Callers |->
                                       IF @[c].pc = "await" /\ @[c].p = n
                                         THEN [@[c] EXCEPT !.pc = "threw"] ELSE @[c]]]
  /\ UNCHANGED <<deployment, rw, api>>

\* A browser loses its connection; its 'disconnected' handler runs.
Disconnected(b) ==
  /\ b \in svc.connected
  /\ svc' = [svc EXCEPT !.connected = @ \ {b},
                        !.browser = IF b \in svc.handlers THEN 0 ELSE @]
  /\ UNCHANGED <<deployment, rw, api>>

\* The request is over, with its page or with its error.
CallEnds(c) ==
  /\ svc.callers[c].pc \in {"got", "threw"}
  /\ svc' = [svc EXCEPT !.callers[c] = NoCall]
  /\ UNCHANGED <<deployment, rw, api>>

NextBrowser ==
  \/ \E c \in Callers : getBrowser(c) \/ CallEnds(c)
  \/ \E n \in 1..MaxLaunches : LaunchResolves(n) \/ LaunchRejects(n) \/ Disconnected(n)

\* One service module loaded, requests arriving in any order.
SpecBrowser == Init /\ [][NextBrowser]_vars

(* ------------------------------------------------------------------ *)
(* Properties                                                          *)
(* ------------------------------------------------------------------ *)
Finished(p, op) == sh[p].op = op /\ sh[p].st \in {"ok", "fail"}
Aborted(p, op, why) == sh[p].op = op /\ sh[p].st = "fail" /\ sh[p].reason = why

\* The slots as they were persisted when invocation p began.
PreActive(p) == ActivePort(sh[p].pre.fs)
PreStandby(p) == Other(PreActive(p))

\* C1: the port the proxy's live upstream targets always has a running unit
\* behind it, across any sequence of deploys and rollbacks run to success or
\* abort with any step allowed to fail.
RoutedUnitAlwaysRunning ==
  \A port \in RoutedPorts(caddy) : docker[ContainerOn(port)] = "running"

\* C2: after a deploy that reports success the proxy routes to the port of
\* the slot that was standby when the call began, and the persisted
\* activePort is that port.
DeploySuccessRoutesStandby ==
  \A p \in Procs :
    (sh[p].op = "deploy" /\ sh[p].st = "ok") =>
      /\ RoutedPorts(caddy) = {PreStandby(p)}
      /\ fs.STATE_FILE = <<PreStandby(p)>>

DeploySucceeded ==
  \E p \in Procs :
    /\ sh[p].op = "deploy" /\ sh[p].st = "ok"
    /\ RoutedPorts(sh[p].pre.caddy) = {PreActive(p)}
    /\ Cardinality(Dials(caddy)) > 1

\* C3: a rollback run right after a successful deploy, with the proxy
\* reachable and the health gate passed, succeeds: activePort and routing are
\* back at the pre-deploy port and the history is cleared.
RollbackAfterDeploySucceeds ==
  \A p \in Procs :
    ( /\ Finished(p, "rollback")
      /\ sh[p].after = [op |-> "deploy", ok |-> TRUE]
      /\ sh[p].reason \notin {"HealthCheckTimeout", "ConfigUnreachable", "ConfigApplyFailed"} ) =>
      /\ sh[p].st = "ok"
      /\ fs.STATE_FILE = sh[p].pre.fs.PREV_PORT_FILE
      /\ RoutedPorts(caddy) = {Head(sh[p].pre.fs.PREV_PORT_FILE)}
      /\ fs.PREV_PORT_FILE = <<>> /\ fs.PREV_CONTAINER_FILE = <<>>

\* C4: a deploy that aborts at the cutover (config unreadable, or the apply
\* refused) has removed the new standby unit and left the active unit, the
\* persisted state and the routing as they were.
CutoverAbortRemovesStandby ==
  \A p \in Procs :
    (Aborted(p, "deploy", "ConfigUnreachable") \/ Aborted(p, "deploy", "ConfigApplyFailed")) =>
      /\ docker[ContainerOn(PreStandby(p))] # "running"
      /\ docker[ContainerOn(PreActive(p))] = sh[p].pre.docker[ContainerOn(PreActive(p))]
      /\ fs = sh[p].pre.fs
      /\ caddy = sh[p].pre.caddy

BeforePersist ==
  {"pull", "build", "rm_stale", "run", "health", "timeout_rm", "caddy_get", "caddy_load",
   "stop_old", "rm_old", "prune", "ensure", "stop_current", "save_active"}

\* C6 as stated: an invocation killed between two steps leaves the persisted
\* state it found, and that state's activePort is the port the proxy routes
\* to.
InterruptLeavesStateMatchingRouting ==
  \A p \in Procs :
    sh[p].st = "killed" =>
      /\ fs = sh[p].pre.fs
      /\ RoutedPorts(caddy) = {ActivePort(fs)}

\* C6 amended: killed before its persist step, an invocation leaves the
\* persisted state it found; killed before its cutover was applied it leaves
\* the routing it found as well; a deploy killed between cutover and persist
\* leaves the proxy on the new port and activePort on the old one.
InterruptBeforePersistKeepsState ==
  \A p \in Procs :
    (sh[p].st = "killed" /\ sh[p].pc \in BeforePersist) =>
      /\ fs = sh[p].pre.fs
      /\ ~sh[p].applied => caddy = sh[p].pre.caddy
      /\ (sh[p].applied /\ sh[p].op = "deploy") =>
            /\ RoutedPorts(caddy) = {PreStandby(p)}
            /\ ActivePort(fs) = PreActive(p)

KilledAfterCutover ==
  \E p \in Procs :
    /\ sh[p].st = "killed" /\ sh[p].applied /\ sh[p].pc \in BeforePersist
    /\ sh[p].op = "deploy"
    /\ RoutedPorts(sh[p].pre.caddy) = {PreActive(p)}

\* C7: every deploy whose cutover was applied ends in success with the new
\* port persisted as activePort and the old slot recorded as previous,
\* whatever fails in the cleanup that follows.
CleanupFailureNeverBlocksPersist ==
  \A p \in Procs :
    (Finished(p, "deploy") /\ sh[p].applied) =>
      /\ sh[p].st = "ok"
      /\ fs.STATE_FILE = <<PreStandby(p)>>
      /\ fs.PREV_PORT_FILE = <<PreActive(p)>>
      /\ fs.PREV_CONTAINER_FILE = <<ContainerOn(PreActive(p))>>

\* C8: a rollback run when the last successful operation was a rollback
\* fails with NoRollbackAvailable and leaves state files, routing and units as
\* it found them.
SecondRollbackRefused ==
  \A p \in Procs :
    (sh[p].op = "rollback" /\ sh[p].st # "idle" /\ sh[p].afterOk = "rollback") =>
      /\ Aborted(p, "rollback", "NoRollbackAvailable")
      /\ World = sh[p].pre

SecondRollbackTried ==
  \E p \in Procs :
    /\ Aborted(p, "rollback", "NoRollbackAvailable")
    /\ sh[p].after = [op |-> "rollback", ok |-> TRUE]

\* C9: a rollback that finds previousPort or previousUnit unrecorded fails at
\* its check with NoRollbackAvailable, having started or stopped no unit, made
\* no proxy request and written no state.
RollbackWithoutHistoryRefused ==
  \A p \in Procs :
    ( /\ sh[p].op = "rollback" /\ sh[p].st # "idle"
      /\ (sh[p].pre.fs.PREV_PORT_FILE = <<>> \/ sh[p].pre.fs.PREV_CONTAINER_FILE = <<>>) ) =>
      /\ Aborted(p, "rollback", "NoRollbackAvailable")
      /\ sh[p].pc = "check"
      /\ sh[p].cfg = Missing /\ ~sh[p].applied
      /\ World = sh[p].pre

RollbackWithHalfHistory ==
  \E p \in Procs :
    /\ Aborted(p, "rollback", "NoRollbackAvailable")
    /\ sh[p].pre.fs.PREV_PORT_FILE # <<>>
    /\ sh[p].pre.fs.PREV_CONTAINER_FILE = <<>>

\* The unit the history named when rollback p began.
PrePrevUnit(p) == Head(sh[p].pre.fs.PREV_CONTAINER_FILE)

\* C10: a rollback whose recorded previous unit is gone fails with
\* PreviousUnitGone with units, proxy configuration and persisted state as it
\* found them; one whose previous unit is there but stopped starts it.
PreviousUnitGoneNoEffects ==
  \A p \in Procs :
    (sh[p].op = "rollback" /\ sh[p].st \in {"run", "ok", "fail"} /\ sh[p].pc # "check") =>
      /\ (sh[p].pre.docker[PrePrevUnit(p)] = "absent" /\ sh[p].st # "run") =>
            /\ Aborted(p, "rollback", "PreviousUnitGone")
            /\ World = sh[p].pre
      /\ (sh[p].pre.docker[PrePrevUnit(p)] = "absent" /\ sh[p].st = "run") =>
            /\ sh[p].pc = "ensure"
            /\ World = sh[p].pre
      /\ Aborted(p, "rollback", "PreviousUnitGone") =>
            sh[p].pre.docker[PrePrevUnit(p)] = "absent"
      /\ (sh[p].pre.docker[PrePrevUnit(p)] = "stopped" /\ sh[p].pc = "health") =>
            /\ docker = [sh[p].pre.docker EXCEPT ![PrePrevUnit(p)] = "running"]
            /\ fs = sh[p].pre.fs /\ caddy = sh[p].pre.caddy

PreviousUnitGone ==
  \E p \in Procs :
    /\ Aborted(p, "rollback", "PreviousUnitGone")
    /\ sh[p].after = [op |-> "deploy", ok |-> TRUE]

\* C11: a rollback that aborts at its health gate or at its cutover leaves
\* activePort, previousPort and previousUnit as they were, leaves the routing
\* as it was (on the active port), leaves the active slot's unit running, and
\* can be run again.
RollbackAbortKeepsState ==
  \A p \in Procs :
    ( \/ Aborted(p, "rollback", "HealthCheckTimeout")
      \/ Aborted(p, "rollback", "ConfigUnreachable")
      \/ Aborted(p, "rollback", "ConfigApplyFailed") ) =>
      /\ fs = sh[p].pre.fs
      /\ caddy = sh[p].pre.caddy
      /\ RoutedPorts(sh[p].pre.caddy) = {PreActive(p)} => RoutedPorts(caddy) = {ActivePort(fs)}
      /\ sh[p].pre.docker[ContainerOn(PreActive(p))] = "running" =>
            docker[ContainerOn(ActivePort(fs))] = "running"
      /\ \A c \in Containers : c # PrePrevUnit(p) => docker[c] = sh[p].pre.docker[c]
      /\ RollbackAvailable

RollbackAbortedAtGate ==
  \E p \in Procs :
    /\ Aborted(p, "rollback", "HealthCheckTimeout")
    /\ sh[p].ELAPSED = ROLLBACK_HEALTH_TIMEOUT
    /\ RoutedPorts(caddy) = {ActivePort(fs)}
    /\ docker[ContainerOn(ActivePort(fs))] = "running"

\* C12: when a health gate times out, in deploy or in rollback, the unit that
\* was gated has been removed when the operation exits, and no unit runs on
\* the port that is not active.
HealthTimeoutRemovesGatedUnit ==
  \A p \in Procs :
    /\ Aborted(p, "deploy", "HealthCheckTimeout") =>
          docker[ContainerOn(PreStandby(p))] = "absent"
    /\ Aborted(p, "rollback", "HealthCheckTimeout") =>
          /\ docker[PrePrevUnit(p)] = "absent"
          /\ docker[ContainerOn(Other(ActivePort(fs)))] # "running"

\* The positions in a log at which command e was run.
Where(log, e) == {i \in DOMAIN log : log[i].e = e}

\* C13: persisted state is written only as the last step of a successful
\* run: every write comes after a passed health gate, an applied cutover and
\* an attempted decommission of the same run, and a run that aborts has
\* written nothing.
WritesOnlyAtEnd ==
  \A p \in Procs :
    sh[p].st # "idle" =>
      /\ \A w \in Where(sh[p].log, "write") :
            \E g \in Where(sh[p].log, "probe_ok"), a \in Where(sh[p].log, "apply"),
               d \in Where(sh[p].log, "stop") : g < a /\ a < d /\ d < w
      /\ Where(sh[p].log, "write") = {} => fs = sh[p].pre.fs
      /\ sh[p].st = "fail" => (Where(sh[p].log, "write") = {} /\ fs = sh[p].pre.fs)
      /\ (sh[p].st = "run" /\ Where(sh[p].log, "write") # {}) =>
            sh[p].pc \in {"save_prev_port", "save_prev_container", "rm_prev"}

RollbackWrote ==
  \E p \in Procs :
    /\ sh[p].op = "rollback" /\ sh[p].st = "ok"
    /\ Where(sh[p].log, "write") # {}
    /\ fs # sh[p].pre.fs

\* C14: the unit that was serving traffic when a run began is stopped or
\* removed only after that run has applied the rewritten routing document; a
\* run whose proxy read or apply fails ends without having touched it.
ServingUnitTouchedOnlyAfterCutover ==
  \A p \in Procs :
    (sh[p].st \in {"run", "ok", "fail"} /\ Where(sh[p].log, "apply") = {}) =>
      \A port \in RoutedPorts(sh[p].pre.caddy) :
        sh[p].pre.docker[ContainerOn(port)] = "running" => docker[ContainerOn(port)] = "running"

\* C15: in every run the cutover is applied only after a successful health
\* probe of the target slot's port made in that run after the target unit was
\* launched or revived; routing changes by that apply alone, and the unit it
\* switches to is running.
CutoverOnlyAfterProbe ==
  \A p \in Procs :
    sh[p].st # "idle" =>
      /\ \A a \in Where(sh[p].log, "apply") :
            /\ \E l \in DOMAIN sh[p].log, g \in Where(sh[p].log, "probe_ok") :
                 /\ l < g /\ g < a
                 /\ sh[p].log[l].e \in {"launch", "revive"}
                 /\ sh[p].log[l].port = sh[p].log[a].port
                 /\ sh[p].log[g].port = sh[p].log[a].port
            /\ RoutedPorts(caddy) = {sh[p].log[a].port}
            /\ sh[p].log[a].port = (IF sh[p].op = "deploy" THEN PreStandby(p)
                                    ELSE Head(sh[p].pre.fs.PREV_PORT_FILE))
      /\ Where(sh[p].log, "apply") = {} => caddy = sh[p].pre.caddy
      /\ (sh[p].st = "run" /\ sh[p].pc \in {"stop_old", "stop_current"}) =>
            /\ Where(sh[p].log, "apply") # {}
            /\ \A port \in RoutedPorts(caddy) : docker[ContainerOn(port)] = "running"

RollbackCutOver ==
  \E p \in Procs :
    /\ At(p, "rollback", "stop_current")
    /\ sh[p].pre.docker[PrePrevUnit(p)] = "stopped"
    /\ caddy # sh[p].pre.caddy

\* C16: a successful deploy that began with activePort = P persists the
\* other slot's port as activePort, P as previousPort and slot P's unit name
\* as previousUnit; a successful rollback that follows it persists P as
\* activePort and no history.
DeployPersistsSwappedSlots ==
  \A p \in Procs :
    /\ (sh[p].op = "deploy" /\ sh[p].st = "ok") =>
          fs = [STATE_FILE |-> <<Other(PreActive(p))>>,
                PREV_PORT_FILE |-> <<PreActive(p)>>,
                PREV_CONTAINER_FILE |-> <<ContainerOn(PreActive(p))>>]
    /\ (sh[p].op = "rollback" /\ sh[p].st = "ok" /\ sh[p].after = [op |-> "deploy", ok |-> TRUE]) =>
          /\ fs = [STATE_FILE |-> <<Other(PreActive(p))>>,
                   PREV_PORT_FILE |-> <<>>,
                   PREV_CONTAINER_FILE |-> <<>>]
          /\ sh[p].pre.fs.PREV_PORT_FILE = <<Other(PreActive(p))>>

RolledBackToDefault ==
  \E p \in Procs :
    /\ sh[p].op = "rollback" /\ sh[p].st = "ok"
    /\ sh[p].after = [op |-> "deploy", ok |-> TRUE]
    /\ sh[p].pre.fs = [STATE_FILE |-> <<PORT_B>>, PREV_PORT_FILE |-> <<PORT_A>>,
                        PREV_CONTAINER_FILE |-> <<CONTAINER_NAME_A>>]
    /\ fs = [STATE_FILE |-> <<PORT_A>>, PREV_PORT_FILE |-> <<>>, PREV_CONTAINER_FILE |-> <<>>]

\* C17: in every reachable persisted state the active port is one of the two
\* slot ports (the default A when nothing is written yet), and the previous
\* port, when present, is one of them too.
PersistedPortsAreSlotPorts ==
  /\ ActivePort(fs) \in Ports
  /\ Len(fs.STATE_FILE) <= 1
  /\ fs.STATE_FILE # <<>> => Head(fs.STATE_FILE) \in Ports
  /\ Len(fs.PREV_PORT_FILE) <= 1
  /\ fs.PREV_PORT_FILE # <<>> => Head(fs.PREV_PORT_FILE) \in Ports

HistoryKeptByAbortedRollback ==
  \E p \in Procs :
    /\ sh[p].op = "rollback" /\ sh[p].st = "fail"
    /\ fs.STATE_FILE = <<PORT_A>>
    /\ fs.PREV_PORT_FILE = <<PORT_B>>

RECURSIVE Paths(_)
Paths(obj) ==
  {<<>>} \cup UNION {{<<i>> \o q : q \in Paths(obj.items[i].v)} : i \in DOMAIN obj.items}

RECURSIVE NodeAt(_, _)
NodeAt(obj, path) ==
  IF path = <<>> THEN obj ELSE NodeAt(obj.items[Head(path)].v, Tail(path))

Front(path) == SubSeq(path, 1, Len(path) - 1)

\* The key a node is stored under in its parent ("" for a list item).
KeyAt(obj, path) == NodeAt(obj, Front(path)).items[path[Len(path)]].k

\* The place holds the dial address of an entry of the upstreams list of a
\* reverse_proxy handler.
IsUpstreamDial(obj, path) ==
  /\ Len(path) >= 3
  /\ NodeAt(obj, path).tag = "str"
  /\ KeyAt(obj, path) = "dial"
  /\ NodeAt(obj, Front(path)).tag = "dict"
  /\ NodeAt(obj, Front(Front(path))).tag = "list"
  /\ KeyAt(obj, Front(Front(path))) = "upstreams"
  /\ NodeAt(obj, Front(Front(Front(path)))).tag = "dict"
  /\ Get(NodeAt(obj, Front(Front(Front(path)))), "handler") = Str("reverse_proxy")

\* The upstream dial places holding the old address.
Matching(obj, old_addr) ==
  {q \in Paths(obj) : IsUpstreamDial(obj, q) /\ NodeAt(obj, q).val = old_addr}

\* C19: patch_upstreams puts the new address at every upstream dial of every
\* reverse_proxy handler that held the old one, at whatever depth, and the
\* result has the same places, kinds, keys in the same order and the same
\* values everywhere else.
RewriteHitsEveryMatchAndNothingElse ==
  rw.step = "once" =>
    LET places == Paths(rw.cfg)
        hits == Matching(rw.cfg, rw.old_addr)
    IN /\ Paths(rw.once) = places
       /\ \A q \in places :
             /\ NodeAt(rw.once, q).tag = NodeAt(rw.cfg, q).tag
             /\ q # <<>> => KeyAt(rw.once, q) = KeyAt(rw.cfg, q)
             /\ NodeAt(rw.once, q).val =
                   IF q \in hits THEN rw.new_addr ELSE NodeAt(rw.cfg, q).val

\* Two blocks at different depths hold the old address, next to an upstream
\* with another address and a mention of the old one outside any upstream.
RewroteSharedUpstream ==
  /\ rw.step = "once"
  /\ rw.old_addr # rw.new_addr
  /\ \E q1, q2 \in Matching(rw.cfg, rw.old_addr) :
        /\ Len(q1) # Len(q2)
        /\ NodeAt(rw.once, q1).val = rw.new_addr
        /\ NodeAt(rw.once, q2).val = rw.new_addr
  /\ \E q \in Paths(rw.cfg) :
        /\ IsUpstreamDial(rw.cfg, q)
        /\ NodeAt(rw.cfg, q).val \notin {rw.old_addr, rw.new_addr}
  /\ \E q \in Paths(rw.cfg) \ Matching(rw.cfg, rw.old_addr) :
        /\ NodeAt(rw.cfg, q).val = rw.old_addr
        /\ NodeAt(rw.once, q).val = rw.old_addr

\* C20: patching the result once more with the same addresses gives the
\* same document: no place added, none changed again.
RewriteIdempotent ==
  rw.step = "twice" =>
    /\ rw.twice = rw.once
    /\ Paths(rw.twice) = Paths(rw.once)

\* A second pass over a document the first pass changed, in which the new
\* address was already present before the first pass.
RewroteTwice ==
  /\ rw.step = "twice"
  /\ rw.old_addr # rw.new_addr
  /\ rw.once # rw.cfg
  /\ \E q \in Paths(rw.cfg) : IsUpstreamDial(rw.cfg, q) /\ NodeAt(rw.cfg, q).val = rw.new_addr
  /\ rw.twice = rw.once

\* The probes an invocation's health gate has issued stay within
\* timeout/interval + 1, and the one that passed or found the deadline
\* reached was the last.
ProbesBounded ==
  \A p \in Procs :
    sh[p].st # "idle" =>
      LET limit == IF sh[p].op = "deploy" THEN HEALTH_TIMEOUT ELSE ROLLBACK_HEALTH_TIMEOUT
          passed == Where(sh[p].log, "probe_ok") # {}
          timedOut == \/ sh[p].pc = "timeout_rm"
                      \/ sh[p].st = "fail" /\ sh[p].reason = "HealthCheckTimeout"
      IN /\ sh[p].probes <= limit \div SLEEP_SECONDS + 1
         /\ sh[p].probes <= (IF sh[p].op = "deploy" THEN 31 ELSE 16)
         /\ sh[p].ELAPSED <= limit
         /\ Cardinality(Where(sh[p].log, "probe_ok")) <= 1
         /\ passed => sh[p].probes = sh[p].ELAPSED \div SLEEP_SECONDS + 1
         /\ timedOut => /\ ~passed
                         /\ sh[p].ELAPSED = limit
                         /\ sh[p].probes = limit \div SLEEP_SECONDS + 1
         /\ (~passed /\ ~timedOut) => sh[p].probes = sh[p].ELAPSED \div SLEEP_SECONDS

\* C21: the health gate stops at its first successful probe and otherwise
\* after at most timeout/interval + 1 probes (31 for deploy, 16 for
\* rollback), none issued after the deadline was found reached; and every
\* started deploy or rollback ends in success or abort.
HealthGateBoundedAndRunEnds ==
  /\ []ProbesBounded
  /\ \A p \in Procs : (sh[p].st = "run") ~> (sh[p].st \in {"ok", "fail"})

GateGaveUpAtDeadline ==
  \E p \in Procs :
    /\ Aborted(p, "deploy", "HealthCheckTimeout")
    /\ sh[p].probes = 31
    /\ sh[p].ELAPSED = HEALTH_TIMEOUT

\* C22: a deploy that succeeds right after a killed deploy or rollback ends
\* with the proxy routing to the persisted active port, a running unit on
\* that port, and the slot it found persisted recorded as the one rollback
\* level.
DeployAfterInterruptRecovers ==
  \A p \in Procs :
    (sh[p].op = "deploy" /\ sh[p].st = "ok" /\ sh[p].afterKilled) =>
      /\ fs.STATE_FILE = <<PreStandby(p)>>
      /\ RoutedPorts(caddy) = {ActivePort(fs)}
      /\ docker[ContainerOn(ActivePort(fs))] = "running"
      /\ fs.PREV_PORT_FILE = <<PreActive(p)>>
      /\ fs.PREV_CONTAINER_FILE = <<ContainerOn(PreActive(p))>>

\* The killed invocation had left the proxy on a port other than the
\* persisted one, or its persist step half done.
RecoveredFromDivergence ==
  \E p \in Procs :
    /\ sh[p].op = "deploy" /\ sh[p].st = "ok" /\ sh[p].afterKilled
    /\ \/ RoutedPorts(sh[p].pre.caddy) # {PreActive(p)}
       \/ (sh[p].pre.fs.PREV_PORT_FILE = <<>>) # (sh[p].pre.fs.PREV_CONTAINER_FILE = <<>>)
    /\ RoutedPorts(caddy) = {ActivePort(fs)}

\* No invocation is under way: the state files are as the last one left them.
AtRest == \A p \in Procs : sh[p].st # "run"

\* C26: in every persisted state, one left by a killed persist step
\* included, the previous port is recorded exactly when the previous unit
\* is, and recorded together they name the same slot, which is not the
\* active one.
HistoryRecordedTogether ==
  AtRest =>
    /\ (fs.PREV_PORT_FILE # <<>>) <=> (fs.PREV_CONTAINER_FILE # <<>>)
    /\ (fs.PREV_PORT_FILE # <<>> /\ fs.PREV_CONTAINER_FILE # <<>>) =>
          /\ Head(fs.PREV_CONTAINER_FILE) = ContainerOn(Head(fs.PREV_PORT_FILE))
          /\ Head(fs.PREV_PORT_FILE) = Other(ActivePort(fs))

\* C27: whenever history is recorded the previous port differs from the
\* active port, and the unit a rollback stops is never the one it has just
\* routed traffic to.
PreviousDiffersFromActive ==
  /\ (AtRest /\ fs.PREV_PORT_FILE # <<>>) => Head(fs.PREV_PORT_FILE) # ActivePort(fs)
  /\ \A p \in Procs :
        sh[p].op = "rollback" =>
          \A a \in Where(sh[p].log, "apply"), t \in Where(sh[p].log, "stop") :
            sh[p].log[t].port # sh[p].log[a].port

\* The usage rows of all keys and months together.
RECURSIVE TotalRows(_, _)
TotalRows(api_usage, ids) ==
  IF ids = {} THEN 0
  ELSE LET id == CHOOSE x \in ids : TRUE
       IN CountFrom(api_usage[id], Months, 0) + TotalRows(api_usage, ids \ {id})

\* The header is 'Bearer sk_live_<32 hex>'.
WellFormed(h) ==
  /\ h.present /\ h.scheme = "Bearer"
  /\ h.key.prefix = "sk_live_" /\ h.key.hexlen = 32 /\ h.key.lower

\* What one run of apiKeyAuth does to the request and to api_usage.
AuthStep ==
  (api.up /\ api.req.pc = "apiKeyAuth" /\ api'.req.pc # "apiKeyAuth") =>
    LET h == api.req.header
        after == api'.req
        active == {row \in api.api_keys : row.key = h.key /\ row.active = 1}
        exhausted(row) == /\ ~IsInfinity(row.tier)
                          /\ api.api_usage[row.id][api.now] >= TIER_LIMITS[row.tier]
        same == api'.api_usage = api.api_usage
    IN IF ~WellFormed(h)
       THEN /\ after.pc = "payment" /\ after.status = 0
            /\ ~after.locals.set /\ same
       ELSE IF active = {}
       THEN /\ after.pc = "done" /\ after.status = 401
            /\ ~after.locals.set /\ same
       ELSE IF \E row \in active : exhausted(row)
       THEN /\ after.pc = "done" /\ after.status = 429
            /\ ~after.locals.set /\ same
       ELSE /\ after.pc = "payment" /\ after.status = 0
            /\ after.locals.set /\ after.locals.keyRow \in active
            /\ TotalRows(api'.api_usage, KeyIds) = TotalRows(api.api_usage, KeyIds) + 1
            /\ \A id \in KeyIds \ {after.locals.keyRow.id} :
                 api'.api_usage[id] = api.api_usage[id]

\* A request apiKeyAuth has answered goes no further down the chain.
ChainStopsOnRefusal ==
  (api.up /\ api.req.decision \in {"401", "429"}) =>
    /\ api.req.pc = "done"
    /\ api.req.status \in {401, 429}
    /\ ~api.req.payment /\ ~api.req.handled
    /\ api.req.rows = 0 /\ ~api.req.locals.set

\* C23: apiKeyAuth passes a request without a well-formed key on with no
\* auth context and no usage row; answers 401 to a well-formed key that is
\* unknown or inactive and 429 to a valid key whose month is used up, the
\* chain stopping and no usage row written; and for a valid key with quota
\* left writes exactly one usage row, sets res.locals.apiKeyAuth and goes on.
ApiKeyAuthDecides == []ChainStopsOnRefusal /\ [][AuthStep]_vars

QuotaExhaustedRefused ==
  /\ api.up
  /\ api.req.header = Header("Bearer", Key(1))
  /\ api.req.decision = "429" /\ api.req.status = 429
  /\ api.now = 11
  /\ api.api_usage[1][11] = 50

\* C24: past the payment stage, the payment middleware has been skipped
\* exactly when res.locals.apiKeyAuth is set; and a paid handler run without
\* it belongs to a request for which apiKeyAuth found an active key with
\* quota left and wrote one usage row.
PaymentSkippedOnlyForKeyAuth ==
  api.up =>
    LET r == api.req
    IN /\ (r.pc = "handler" \/ (r.pc = "done" /\ r.decision \in {"next", "accept"})) =>
            (~r.payment <=> r.locals.set)
       /\ r.locals.set <=> r.decision = "accept"
       /\ (r.handled /\ r.path \in PAID_ENDPOINTS /\ ~r.payment) =>
            /\ r.decision = "accept"
            /\ r.rows = 1
            /\ r.found \in api.api_keys /\ r.found.active = 1
            /\ r.found.key = r.header.key
            /\ r.rateLimit.allowed
            /\ ~IsInfinity(r.found.tier) => r.rateLimit.used < TIER_LIMITS[r.found.tier]

PaidHandlerReachedByKey ==
  /\ api.up
  /\ api.req.handled /\ api.req.path \in PAID_ENDPOINTS
  /\ ~api.req.payment /\ ~api.req.pays
  /\ api.req.rows = 1

\* C29: a key on a finite tier never has more usage rows in a month than
\* TIER_LIMITS of its tier, the remaining quota reported for it is never
\* negative, and a key on the unlimited tier is never answered 429 by
\* apiKeyAuth.
QuotaNeverExceeded ==
  api.up =>
    /\ \A row \in api.api_keys : \A m \in Months :
         ~IsInfinity(row.tier) => api.api_usage[row.id][m] <= TIER_LIMITS[row.tier]
    /\ (api.req.found # NoRow /\ ~IsInfinity(api.req.found.tier)) =>
         /\ api.req.rateLimit.remaining >= 0
         /\ api.req.rateLimit.remaining = TIER_LIMITS[api.req.found.tier] - api.req.rateLimit.used
    /\ (api.req.found # NoRow /\ IsInfinity(api.req.found.tier)) => api.req.decision # "429"
    /\ \A row \in api.api_keys :
         (IsInfinity(row.tier) /\ api.req.header = Header("Bearer", row.key)
            /\ row.active = 1) => api.req.decision \in {"", "accept"}

BothMonthsUsedUp ==
  /\ api.up
  /\ api.now = 12
  /\ api.api_usage[1][11] = 50
  /\ api.api_usage[1][12] = 50
  /\ api.req.decision = "429"

\* Invocation p is taking its stale-standby or health-timeout cleanup step
\* and a unit goes away with it.
CleanupRemoves(p, c) ==
  /\ At(p, "deploy", "rm_stale") \/ At(p, "deploy", "timeout_rm")
  /\ sh'[p] # sh[p]
  /\ docker[c] # "absent" /\ docker'[c] = "absent"

\* No cleanup step removes the unit the proxy routes to.
NoCleanupOfRoutedUnit ==
  \A p \in Procs : \A c \in Containers :
    CleanupRemoves(p, c) => PortOf(c) \notin RoutedPorts(caddy)

\* Both invocations over, none of them on a failed prune: the proxy routes
\* to the persisted active port and a unit runs there.
OverlapEndsConsistent ==
  (\A p \in Procs : sh[p].st \in {"ok", "fail"} /\ sh[p].reason # "PruneFailed") =>
    /\ RoutedPorts(caddy) = {ActivePort(fs)}
    /\ docker[ContainerOn(ActivePort(fs))] = "running"

\* C28: with two deploys overlapping, no cleanup step of one removes the
\* unit live routing points at, and once both are over the proxy targets
\* the persisted active port with a unit running on it.
OverlapKeepsRoutedUnit == []OverlapEndsConsistent /\ [][NoCleanupOfRoutedUnit]_vars

\* A cleanup step removes the unit of the standby slot its invocation chose
\* and no other, and the routed unit only once the other invocation has
\* applied its cutover.
CleanupOnlyStandby ==
  \A p \in Procs : \A c \in Containers :
    CleanupRemoves(p, c) =>
      /\ c = ContainerOn(PreStandby(p))
      /\ c # ContainerOn(PreActive(p))
      /\ PortOf(c) \in RoutedPorts(caddy) =>
            \E q \in Procs \ {p} : sh[q].op = "deploy" /\ sh[q].applied

\* Both invocations successful: the proxy routes to the persisted active
\* port, the standby both chose, and a unit runs there.
OverlapBothOk ==
  (\A p \in Procs : sh[p].op = "deploy" /\ sh[p].st = "ok") =>
    /\ fs.STATE_FILE = <<PreStandby("p1")>>
    /\ RoutedPorts(caddy) = {ActivePort(fs)}
    /\ docker[ContainerOn(ActivePort(fs))] = "running"

\* C28 amended: overlapping deploys share the standby slot; a cleanup step
\* removes only that slot's unit, the routed unit among them only after the
\* other deploy has cut over to it; if both deploys succeed the proxy ends on
\* the persisted active port with a unit running.
OverlapCleanupHitsSharedStandby == []OverlapBothOk /\ [][CleanupOnlyStandby]_vars

\* One deploy cut over and succeeded; the other timed out at its gate and
\* removed the unit the proxy now routes to.
RoutedUnitRemovedByOtherDeploy ==
  \E p \in Procs : \E q \in Procs \ {p} :
    /\ sh[q].op = "deploy" /\ sh[q].st = "ok"
    /\ Aborted(p, "deploy", "HealthCheckTimeout")
    /\ RoutedPorts(caddy) = {ActivePort(fs)}
    /\ docker[ContainerOn(ActivePort(fs))] = "absent"

\* The launches in flight.
InFlight == {n \in DOMAIN svc.launch : svc.launch[n] = "pending"}

\* C25: at most one launch is in flight; every call that awaits is tied to
\* that launch, the one the launch promise holds; a call that awaited holds
\* the browser its launch produced.
SingleFlight ==
  /\ Cardinality(InFlight) <= 1
  /\ \A c \in Callers :
       LET call == svc.callers[c] IN
       /\ call.pc = "await" => InFlight = {call.p} /\ svc.browserLaunchPromise = call.p
       /\ call.pc = "got" /\ call.via # "browser" => svc.launch[call.p] = "resolved"

\* Three calls made during one launch hold the browser that launch produced.
CallersShareOneLaunch ==
  /\ Len(svc.launch) = 1
  /\ \A c \in Callers : svc.callers[c].pc = "got" /\ svc.callers[c].p = 1
  /\ {svc.callers[c].via : c \in Callers} = {"launch", "promise"}

\* What a call is handed was, when the call was made, a connected browser or
\* a launch in flight.
HandedOutLive == \A c \in Callers : svc.callers[c].live

\* A call made with no connected browser and no launch in flight starts a
\* launch.
FreshLaunch ==
  \A c \in Callers :
    (/\ svc.callers[c].pc = "idle" /\ svc'.callers[c].pc # "idle"
     /\ ~HasBrowser /\ InFlight = {}) =>
      Len(svc'.launch) = Len(svc.launch) + 1

\* C30: after a launch failed or a browser disconnected, a later call starts
\* a fresh launch; no call is handed a failed launch or a disconnected
\* browser.
LaterCallLaunchesAfresh == []HandedOutLive /\ [][FreshLaunch]_vars

====
